---- MODULE Spec2Model ----
(***************************************************************************)
(* Model of data_preparation/embeddings/video_embeddings/video_dataset.py: *)
(* VideoDataset (__init__, __len__, __getitem__), collate_fn and           *)
(* CustomBatch.                                                            *)
(*                                                                         *)
(* Strings are sequences of code points, so that Python's string order,    *)
(* os.path.basename and str.split('.') are computed, not assumed:          *)
(*   '-' = 45   '.' = 46   '/' = 47   'a' = 97   'b' = 98   'd' = 100      *)
(*   'm' = 109  'n' = 110                                                  *)
(***************************************************************************)
EXTENDS Integers, Sequences, FiniteSets, TLC

VARIABLES
    pc,                  \* "new": not constructed yet; "ready": constructed
    metadata_file,       \* content of the JSON file at metadata_path: <<[key, label], ...>> in file order
    listing,             \* entries of the check_path directory (a set of file names)
    metadata,            \* self.metadata: an insertion-ordered dict, <<[key, label], ...>>
    path_to_all_videos,  \* self.path_to_all_videos
    window,              \* self.window
    resize,              \* self.resize, the fraction [num, den]
    error_paths,         \* self.error_paths: <<[exc, path], ...>>
    length,              \* what the last __len__ call returned (-1: never called)
    idx,                 \* the argument of the last __getitem__ call (-1: never called)
    v_cap,               \* the cv2.VideoCapture the last __getitem__ call opened
    frames,              \* the local list "frames" of the last __getitem__ call when it left the loop
    retrieves,           \* the number of v_cap.retrieve() calls the last __getitem__ call made
    errors_before,       \* self.error_paths when the last __getitem__ call was entered
    result,              \* what the last __getitem__ call returned
    data,                \* the argument of the last collate_fn call
    batch,               \* the CustomBatch the last collate_fn call built, or the exception it raised
    it,                  \* the batch iteration: "idle", "running", "done", "aborted"
    batch_size,          \* the iteration's batch size
    cursor,              \* the next index the iteration fetches
    fetched,             \* the results fetched for the group being assembled
    batches              \* the batches the iteration has produced

dsVars == <<pc, metadata_file, listing, metadata, path_to_all_videos, window, resize>>
callVars == <<idx, v_cap, frames, retrieves, errors_before, result>>
batchVars == <<data, batch>>
loaderVars == <<it, batch_size, cursor, fetched, batches>>
vars == <<dsVars, error_paths, length, callVars, batchVars, loaderVars>>

----------------------------------------------------------------------------
(* Bounds of the model *)

MaxKeys == 3      \* keys of the metadata file (pruning)
MaxDone == 2      \* entries of the check_path directory (pruning)
MaxFrames == 4    \* frame count of a short video
MaxErrors == 2    \* failing __getitem__ calls made directly on one dataset
MaxBatch == 3     \* length of a list passed to collate_fn, and batch size of the iteration

----------------------------------------------------------------------------
(* Strings *)

Dot == 46
Slash == 47

Min(a, b) == IF a <= b THEN a ELSE b

\* Python's str < str: lexicographic by code point, a proper prefix is smaller.
RECURSIVE StrLess(_, _)
StrLess(a, b) ==
    IF b = <<>> THEN FALSE
    ELSE IF a = <<>> THEN TRUE
    ELSE IF Head(a) # Head(b) THEN Head(a) < Head(b)
    ELSE StrLess(Tail(a), Tail(b))

\* os.path.basename (posixpath): what follows the last '/'.
Basename(p) ==
    LET slashes == {i \in 1..Len(p) : p[i] = Slash}
        last == IF slashes = {} THEN 0 ELSE CHOOSE i \in slashes : \A j \in slashes : j <= i
    IN  SubSeq(p, last + 1, Len(p))

\* s.split('.')[0]: what precedes the first '.', all of s when it has none.
SplitDotFirst(s) ==
    LET dots == {i \in 1..Len(s) : s[i] = Dot}
        first == IF dots = {} THEN Len(s) + 1 ELSE CHOOSE i \in dots : \A j \in dots : i <= j
    IN  SubSeq(s, 1, first - 1)

\* os.path.basename(x).split('.')[0]
PName(p) == SplitDotFirst(Basename(p))

----------------------------------------------------------------------------
(* list.sort: stable, ascending by the key k of each element [k, v] *)

RECURSIVE InsertSorted(_, _)
InsertSorted(e, s) ==
    IF s = <<>> THEN <<e>>
    ELSE IF StrLess(e.k, Head(s).k) THEN <<e>> \o s
    ELSE <<Head(s)>> \o InsertSorted(e, Tail(s))

RECURSIVE SortByKey(_)
SortByKey(s) ==
    IF s = <<>> THEN <<>>
    ELSE InsertSorted(s[Len(s)], SortByKey(SubSeq(s, 1, Len(s) - 1)))

Values(s) == [i \in 1..Len(s) |-> s[i].v]

\* os.listdir: the entries in an order the file system chooses.
RECURSIVE ListDir(_)
ListDir(dir) ==
    IF dir = {} THEN <<>>
    ELSE LET x == CHOOSE y \in dir : TRUE IN <<x>> \o ListDir(dir \ {x})

----------------------------------------------------------------------------
(* VideoDataset.__init__ *)

\* done = [os.path.basename(x).split('.')[0] for x in os.listdir(check_path)]; done.sort()
Done(dir) ==
    LET names == ListDir(dir)
    IN  Values(SortByKey([i \in 1..Len(names) |-> [k |-> PName(names[i]), v |-> PName(names[i])]]))

\* metadata_keys = list(self.metadata.keys()); metadata_keys.sort(key=os.path.basename)
MetadataKeys(md) ==
    Values(SortByKey([i \in 1..Len(md) |-> [k |-> Basename(md[i].key), v |-> md[i].key]]))

InSeq(x, s) == \E i \in 1..Len(s) : s[i] = x

\* Mutant of Matches: the slice starts one element too late, done[len(delete) + 1:].
MatchesSliceOffByOne(p, done, delete) ==
    InSeq(PName(p), SubSeq(done, Len(delete) + 2, Len(done)))

\* p_name in done[len(delete):]
Matches(p, done, delete) ==
    InSeq(PName(p), SubSeq(done, Len(delete) + 1, Len(done)))

\* for p in metadata_keys: if p_name in done[len(delete):]: delete.append(p)
RECURSIVE ScanKeys(_, _, _)
ScanKeys(keys, done, delete) ==
    IF keys = <<>> THEN delete
    ELSE ScanKeys(Tail(keys), done,
                  IF Matches(Head(keys), done, delete) THEN Append(delete, Head(keys)) ELSE delete)

DeleteList(md, dir) == ScanKeys(MetadataKeys(md), Done(dir), <<>>)

\* self.metadata.pop(d): the dict keeps the insertion order of what is left.
Pop(md, d) == SelectSeq(md, LAMBDA e : e.key # d)

RECURSIVE PopAll(_, _)
PopAll(md, delete) ==
    IF delete = <<>> THEN md ELSE PopAll(Pop(md, Head(delete)), Tail(delete))

\* Mutant of Keys: the keys in the order of the sorted metadata_keys list.
KeysSortedByName(md) == MetadataKeys(md)

\* list(self.metadata.keys())
Keys(md) == [i \in 1..Len(md) |-> md[i].key]

Construct(w, r) ==
    /\ pc = "new"
    /\ metadata' = PopAll(metadata_file, DeleteList(metadata_file, listing))
    /\ path_to_all_videos' = Keys(metadata')
    /\ window' = w
    /\ resize' = r
    /\ error_paths' = <<>>
    /\ pc' = "ready"
    /\ UNCHANGED <<metadata_file, listing, length, callVars, batchVars, loaderVars>>

----------------------------------------------------------------------------
(* Inputs of the pruning: metadata files and check_path directories *)

\* "a.m", "b.m", "d/a.n", "a-.m", "a", "ab.m", "b.a", "d.m/b"
KeyUniverse ==
    { <<97, 46, 109>>, <<98, 46, 109>>, <<100, 47, 97, 46, 110>>, <<97, 45, 46, 109>>,
      <<97>>, <<97, 98, 46, 109>>, <<98, 46, 97>>, <<100, 46, 109, 47, 98>> }

\* "a.n", "b.n", "a-.n", "a", "ab.n", "b.m.n"
EntryUniverse ==
    { <<97, 46, 110>>, <<98, 46, 110>>, <<97, 45, 46, 110>>, <<97>>,
      <<97, 98, 46, 110>>, <<98, 46, 109, 46, 110>> }

Label(i) == IF i % 2 = 1 THEN "REAL" ELSE "FAKE"

\* A JSON object has distinct keys.
KeyLists ==
    { s \in UNION { [1..n -> KeyUniverse] : n \in 0..MaxKeys } :
        \A i, j \in 1..Len(s) : i # j => s[i] # s[j] }

MetadataOf(keys) == [i \in 1..Len(keys) |-> [key |-> keys[i], label |-> Label(i)]]

Directories == { d \in SUBSET EntryUniverse : Cardinality(d) <= MaxDone }

DefaultResize == [num |-> 1, den |-> 2]

NoResize == [num |-> 0, den |-> 1]

\* None is the empty tuple; a sample is the tuple <<video_path, frames, label>>.
None == <<>>

NoCap == [opened |-> FALSE, frame_count |-> 0, height |-> 0, width |-> 0, bad |-> {}]

NoBatch == [raised |-> "unset", video_path |-> <<>>, frame |-> <<>>, label |-> <<>>]

\* Nothing constructed, nothing called.
Fresh ==
    /\ pc = "new"
    /\ metadata = <<>>
    /\ path_to_all_videos = <<>>
    /\ window = 0
    /\ resize = NoResize
    /\ error_paths = <<>>
    /\ length = -1
    /\ idx = -1
    /\ v_cap = NoCap
    /\ frames = <<>>
    /\ retrieves = 0
    /\ errors_before = <<>>
    /\ result = None
    /\ data = <<>>
    /\ batch = NoBatch
    /\ it = "idle"
    /\ batch_size = 0
    /\ cursor = 0
    /\ fetched = <<>>
    /\ batches = <<>>

InitPrune ==
    /\ metadata_file \in { MetadataOf(ks) : ks \in KeyLists }
    /\ listing \in Directories
    /\ Fresh

\* VideoDataset(metadata_path, check_path=...): window=1, resize=0.5
ConstructDefault == Construct(1, DefaultResize)

NextPrune == ConstructDefault

SpecPrune == InitPrune /\ [][NextPrune]_vars

----------------------------------------------------------------------------
(* VideoDataset.__len__ *)

DatasetLen ==
    /\ pc = "ready"
    /\ length' = Len(path_to_all_videos)
    /\ UNCHANGED <<dsVars, error_paths, callVars, batchVars, loaderVars>>

----------------------------------------------------------------------------
(* VideoDataset.__getitem__ *)

max_v_len == 1440

\* int(x): x = n / d truncated toward zero, for n >= 0 and d > 0.
IntOf(n, d) == n \div d

\* Mutant of TargetDim: the product rounded to the nearest integer.
TargetDimRounded(dim) ==
    IF 2 * ((dim * resize.num) % resize.den) >= resize.den
    THEN IntOf(dim * resize.num, resize.den) + 1
    ELSE IntOf(dim * resize.num, resize.den)

\* int(v_cap.get(cv2.CAP_PROP_FRAME_HEIGHT or _WIDTH) * self.resize)
TargetDim(dim) == IntOf(dim * resize.num, resize.den)

\* range(n)
Range(n) == [i \in 1..n |-> i - 1]

\* Mutant of Positions: the cut at max_v_len is forgotten.
PositionsUncut(v_len) == Range(v_len)

\* range(v_len)[:self.max_v_len]
Positions(v_len) == SubSeq(Range(v_len), 1, Min(IF v_len < 0 THEN 0 ELSE v_len, max_v_len))

\* The positions at which the loop calls v_cap.retrieve(): i % self.window == 0
Retrieved(v_len) == SelectSeq(Positions(v_len), LAMBDA i : i % window = 0)

\* The loop: a frame is appended where retrieve() succeeds; it is resized to
\* (v_width, v_height).
Loop(cap) ==
    LET kept == SelectSeq(Retrieved(cap.frame_count), LAMBDA i : i \notin cap.bad)
    IN  [j \in 1..Len(kept) |->
            [pos |-> kept[j], height |-> TargetDim(cap.height), width |-> TargetDim(cap.width)]]

\* Mutant of IsNoVideo: the check of the frame count is missing.
IsNoVideoNever(v_len) == FALSE

\* if v_len == 0: raise NoVideo(video_path)
IsNoVideo(v_len) == v_len = 0

\* Mutant of Except: a NoFrames exception is logged but not recorded.
ExceptForgetsNoFrames(exc, path) ==
    IF exc = "NoFrames" THEN error_paths ELSE Append(error_paths, [exc |-> exc, path |-> path])

\* except NoVideo as e / except NoFrames as e: self.error_paths.append(e)
Except(exc, path) == Append(error_paths, [exc |-> exc, path |-> path])

LabelOf(path) == (CHOOSE e \in { metadata[i] : i \in 1..Len(metadata) } : e.key = path).label

GetItem(i, cap) ==
    LET video_path == path_to_all_videos[i + 1]
        kept == IF IsNoVideo(cap.frame_count) THEN <<>> ELSE Loop(cap)
    IN  /\ pc = "ready"
        /\ i \in 0..(Len(path_to_all_videos) - 1)
        /\ idx' = i
        /\ v_cap' = cap
        /\ errors_before' = error_paths
        /\ frames' = kept
        /\ retrieves' = IF IsNoVideo(cap.frame_count) THEN 0 ELSE Len(Retrieved(cap.frame_count))
        /\ IF IsNoVideo(cap.frame_count)
           THEN /\ error_paths' = Except("NoVideo", video_path)
                /\ result' = None
           ELSE IF frames' # <<>>
           THEN /\ result' = <<video_path, frames', LabelOf(video_path)>>
                /\ UNCHANGED error_paths
           ELSE /\ error_paths' = Except("NoFrames", video_path)
                /\ result' = None
        /\ UNCHANGED dsVars

----------------------------------------------------------------------------
(* Direct use of one dataset: construction, then __len__ and __getitem__ calls *)

\* {"a.m": REAL, "b.m": FAKE} with check_path holding "a.n" (b.m is left), and
\* {"b.m": REAL, "a.m": FAKE, "ab.m": REAL} with check_path holding "ab.n" and
\* "b.n" (a.m is left).
SamplerInputs ==
    { [file |-> MetadataOf(<< <<97, 46, 109>>, <<98, 46, 109>> >>),
       dir |-> { <<97, 46, 110>> }],
      [file |-> MetadataOf(<< <<98, 46, 109>>, <<97, 46, 109>>, <<97, 98, 46, 109>> >>),
       dir |-> { <<97, 98, 46, 110>>, <<98, 46, 110>> }] }

\* The (window, resize) arguments; the resize factors are exact binary
\* fractions, so the float product dimension * resize is exact.
Params ==
    { [window |-> 1, resize |-> [num |-> 1, den |-> 2]],
      [window |-> 2, resize |-> [num |-> 1, den |-> 4]],
      [window |-> 3, resize |-> [num |-> 3, den |-> 4]],
      [window |-> 2, resize |-> [num |-> 1, den |-> 1]] }

Capture(n, bad, h, w) ==
    [opened |-> TRUE, frame_count |-> n, height |-> h, width |-> w, bad |-> bad]

\* Short videos: every frame count up to MaxFrames (and a negative one, which
\* some backends report), every set of positions at which retrieve() fails.
FrameCaps ==
    { Capture(n, bad, 6, 4) : n \in {-1}, bad \in {{}} } \cup
    UNION { { Capture(n, bad, 6, 4) : bad \in SUBSET (0..(n - 1)) } : n \in 0..MaxFrames }

\* Videos as long as max_v_len and longer: all decodable, one failure, all failing.
LongCaps ==
    UNION { { Capture(n, bad, 6, 4) : bad \in {{}, {0}, 0..(n - 1)} }
            : n \in {max_v_len, max_v_len + 1} }

\* Source dimensions (height, width); every target dimension is at least 1.
DimCaps ==
    { Capture(4, {}, d[1], d[2]) : d \in {<<5, 7>>, <<7, 5>>, <<6, 9>>, <<9, 6>>} }

\* The scenario of 5 frames, all decodable.
ScenarioCaps == { Capture(5, {}, 6, 4) }

Caps == FrameCaps \cup LongCaps \cup DimCaps \cup ScenarioCaps

Init ==
    /\ \E in \in SamplerInputs : metadata_file = in.file /\ listing = in.dir
    /\ Fresh

ConstructSome == \E a \in Params : Construct(a.window, a.resize)

Call ==
    /\ Len(error_paths) < MaxErrors
    /\ \E i \in 0..(Len(path_to_all_videos) - 1), cap \in Caps : GetItem(i, cap)
    /\ UNCHANGED <<length, batchVars, loaderVars>>

Next == ConstructSome \/ DatasetLen \/ Call

Spec == Init /\ [][Next]_vars

----------------------------------------------------------------------------
(* Use of one dataset with several videos left: any calls, short videos *)

\* {"b.m": REAL, "a.m": FAKE, "ab.m": REAL, "d/a.n": FAKE} with check_path
\* holding "ab.n": b.m, a.m and d/a.n are left, in this order.
UseInputs ==
    { [file |-> MetadataOf(<< <<98, 46, 109>>, <<97, 46, 109>>, <<97, 98, 46, 109>>,
                              <<100, 47, 97, 46, 110>> >>),
       dir |-> { <<97, 98, 46, 110>> }] }

\* No video, one frame, two frames, two undecodable frames.
UseCaps ==
    { Capture(0, {}, 6, 4), Capture(1, {}, 6, 4), Capture(2, {}, 6, 4), Capture(2, {0, 1}, 6, 4) }

InitUse ==
    /\ \E in \in UseInputs : metadata_file = in.file /\ listing = in.dir
    /\ Fresh

CallUse ==
    /\ Len(error_paths) < MaxErrors
    /\ \E i \in 0..(Len(path_to_all_videos) - 1), cap \in UseCaps : GetItem(i, cap)
    /\ UNCHANGED <<length, batchVars, loaderVars>>

NextUse == ConstructSome \/ DatasetLen \/ CallUse

SpecUse == InitUse /\ [][NextUse]_vars

----------------------------------------------------------------------------
(* collate_fn and CustomBatch *)

\* Mutant of NotNone: the filter stops at the first None.
NotNoneUntilFirstNone(batch_in) ==
    LET nones == { i \in 1..Len(batch_in) : batch_in[i] = None }
        first == IF nones = {} THEN Len(batch_in) + 1
                 ELSE CHOOSE i \in nones : \A j \in nones : i <= j
    IN  SubSeq(batch_in, 1, first - 1)

\* filter(lambda x: x is not None, data)
NotNone(batch_in) == SelectSeq(batch_in, LAMBDA x : x # None)

\* zip(*rows): one tuple per component, as many as the shortest row has; none
\* when there is no row.
Zip(rows) ==
    IF rows = <<>> THEN <<>>
    ELSE LET n == CHOOSE m \in { Len(rows[r]) : r \in 1..Len(rows) } :
                      \A r \in 1..Len(rows) : m <= Len(rows[r])
         IN  [c \in 1..n |-> [r \in 1..Len(rows) |-> rows[r][c]]]

\* CustomBatch.__init__: transposed_data[0], [1] and [2]; an index that does
\* not exist raises IndexError.
CustomBatch(batch_in) ==
    LET transposed_data == Zip(NotNone(batch_in))
    IN  IF Len(transposed_data) < 3
        THEN [raised |-> "IndexError", video_path |-> <<>>, frame |-> <<>>, label |-> <<>>]
        ELSE [raised |-> "none", video_path |-> transposed_data[1],
              frame |-> transposed_data[2], label |-> transposed_data[3]]

\* collate_fn(batch): return CustomBatch(batch)
collate_fn(batch_in) ==
    /\ data' = batch_in
    /\ batch' = CustomBatch(batch_in)

\* Samples as __getitem__ returns them: <<video_path, frames, label>>.
Frame(p) == [pos |-> p, height |-> 3, width |-> 2]

Samples ==
    { << <<97, 46, 109>>, <<Frame(0)>>, "REAL" >>,
      << <<98, 46, 109>>, <<Frame(0), Frame(1)>>, "FAKE" >>,
      << <<97, 98, 46, 109>>, <<Frame(0), Frame(2)>>, "REAL" >>,
      << <<100, 47, 97, 46, 110>>, <<Frame(0)>>, "FAKE" >> }

DataLists == UNION { [1..n -> Samples \cup {None}] : n \in 0..MaxBatch }

InitBatch ==
    /\ metadata_file = <<>>
    /\ listing = {}
    /\ Fresh

CollateCall ==
    /\ \E d \in DataLists : collate_fn(d)
    /\ UNCHANGED <<dsVars, error_paths, length, callVars, loaderVars>>

NextBatch == CollateCall

SpecBatch == InitBatch /\ [][NextBatch]_vars

----------------------------------------------------------------------------
(* Iteration in batches, as torch's DataLoader drives the dataset: it asks    *)
(* __len__, fetches the indices in order with __getitem__, and passes each    *)
(* group of batch_size results (the last one may be shorter) to collate_fn.   *)
(* An exception of collate_fn ends the iteration.                             *)

\* No video, one decodable frame, one undecodable frame.
LoaderCaps == { Capture(0, {}, 6, 4), Capture(1, {}, 6, 4), Capture(1, {0}, 6, 4) }

LoaderStart ==
    /\ pc = "ready"
    /\ it = "idle"
    /\ \E bs \in 1..MaxBatch : batch_size' = bs
    /\ length' = Len(path_to_all_videos)
    /\ it' = "running"
    /\ UNCHANGED <<dsVars, error_paths, callVars, batchVars, cursor, fetched, batches>>

LoaderFetch ==
    /\ it = "running"
    /\ cursor < length
    /\ Len(fetched) < batch_size
    /\ \E cap \in LoaderCaps : GetItem(cursor, cap)
    /\ fetched' = Append(fetched, result')
    /\ cursor' = cursor + 1
    /\ UNCHANGED <<length, batchVars, it, batch_size, batches>>

LoaderCollate ==
    /\ it = "running"
    /\ fetched # <<>>
    /\ Len(fetched) = batch_size \/ cursor = length
    /\ collate_fn(fetched)
    /\ IF batch'.raised = "none"
       THEN batches' = Append(batches, batch') /\ it' = "running"
       ELSE batches' = batches /\ it' = "aborted"
    /\ fetched' = <<>>
    /\ UNCHANGED <<dsVars, error_paths, length, callVars, batch_size, cursor>>

LoaderFinish ==
    /\ it = "running"
    /\ cursor = length
    /\ fetched = <<>>
    /\ it' = "done"
    /\ UNCHANGED <<dsVars, error_paths, length, callVars, batchVars, batch_size, cursor, fetched, batches>>

NextLoader == ConstructDefault \/ LoaderStart \/ LoaderFetch \/ LoaderCollate \/ LoaderFinish

SpecLoader == InitUse /\ [][NextLoader]_vars

----------------------------------------------------------------------------
(* Claims about the pruning of __init__ (SpecPrune) *)

\* The set-membership oracle: the stems of the check_path entries.
DoneStems == { PName(x) : x \in listing }

FileKeys == { metadata_file[i].key : i \in 1..Len(metadata_file) }

KeptKeys == { metadata[i].key : i \in 1..Len(metadata) }

RemovedKeys == FileKeys \ KeptKeys

\* C1: after construction a metadata key is removed if and only if its stem
\* (basename up to the first '.') is the stem of some check_path entry, whatever
\* the keys and the entries are.
C1_PruneIsSetMembership ==
    pc = "ready" => \A p \in FileKeys : (p \in RemovedKeys) <=> (PName(p) \in DoneStems)

\* The assumption of the merge scan: the keys have pairwise distinct stems, and
\* the order of their basenames is the order of their stems.
DistinctStems == \A p, q \in FileKeys : p # q => PName(p) # PName(q)

SameOrder ==
    \A p, q \in FileKeys : StrLess(Basename(p), Basename(q)) <=> StrLess(PName(p), PName(q))

\* C9: when the keys have pairwise distinct stems and sort by basename as their
\* stems sort, the scan against done[len(delete):] removes exactly the keys
\* whose stem is a done stem.
C9_ScanIsSetMembership ==
    (pc = "ready" /\ DistinctStems /\ SameOrder)
        => \A p \in FileKeys : (p \in RemovedKeys) <=> (PName(p) \in DoneStems)

\* C9 witness: under the assumption, two keys were removed (the second one was
\* looked up in a proper suffix of done) and one was kept.
C9_Witness ==
    /\ pc = "ready"
    /\ DistinctStems
    /\ SameOrder
    /\ Cardinality(RemovedKeys) >= 2
    /\ KeptKeys # {}

----------------------------------------------------------------------------
(* Claims about __getitem__ (Spec) *)

\* The video the last call opened, as the claims name it.
Called == v_cap.opened

TotalFrames == v_cap.frame_count

VideoPath == path_to_all_videos[idx + 1]

\* The positions below min(total_frames, 1440) that are multiples of window.
Attempted == { q \in 0..(Min(TotalFrames, 1440) - 1) : q % window = 0 }

CeilDiv(n, d) == (n + d - 1) \div d

\* C3: with window = w >= 1 and total_frames = T > 0, the number of frames kept
\* is ceil(min(T, 1440) / w) minus the number of multiples of w below
\* min(T, 1440) at which retrieve failed, and the frames kept are those of the
\* decodable multiples of w, in increasing position order.
C3_KeptFrames ==
    (Called /\ TotalFrames > 0 /\ window >= 1) =>
        /\ Len(frames) = CeilDiv(Min(TotalFrames, 1440), window)
                            - Cardinality(Attempted \cap v_cap.bad)
        /\ { frames[j].pos : j \in 1..Len(frames) } = Attempted \ v_cap.bad
        /\ \A j \in 1..(Len(frames) - 1) : frames[j].pos < frames[j + 1].pos
        /\ frames # <<>> => result # None /\ result[2] = frames

\* C3 witness: window 2 and a video longer than 1440 frames, one attempted
\* position undecodable.
C3_Witness ==
    /\ Called
    /\ window = 2
    /\ TotalFrames > 1440
    /\ v_cap.bad = {0}
    /\ Len(frames) = 719

\* The scenario window 2, 5 frames, all decodable: positions 0, 2, 4.
C3_Scenario ==
    /\ Called
    /\ window = 2
    /\ TotalFrames = 5
    /\ v_cap.bad = {}
    /\ [j \in 1..Len(frames) |-> frames[j].pos] = <<0, 2, 4>>

\* C4: a call on a video that reports total_frames = 0 returns None, appends
\* exactly one entry, a NoVideo carrying the video's path, to error_paths, and
\* decodes no frame.
C4_NoVideo ==
    (Called /\ TotalFrames = 0) =>
        /\ result = None
        /\ error_paths = Append(errors_before, [exc |-> "NoVideo", path |-> VideoPath])
        /\ retrieves = 0
        /\ frames = <<>>

\* C4 witness: the second call in a row on a video without frames.
C4_Witness ==
    /\ Called
    /\ TotalFrames = 0
    /\ errors_before # <<>>
    /\ errors_before[Len(errors_before)].exc = "NoVideo"
    /\ Len(error_paths) = 2

\* C5: a call on a video with total_frames > 0 on which retrieve fails at every
\* attempted position returns None and appends exactly one entry, a NoFrames
\* (not a NoVideo) carrying the video's path, to error_paths.
C5_NoFrames ==
    (Called /\ TotalFrames > 0 /\ Attempted \subseteq v_cap.bad) =>
        /\ result = None
        /\ error_paths = Append(errors_before, [exc |-> "NoFrames", path |-> VideoPath])
        /\ frames = <<>>

\* C5 witness: several decode attempts were made and all failed.
C5_Witness ==
    /\ Called
    /\ TotalFrames > 0
    /\ Attempted \subseteq v_cap.bad
    /\ retrieves >= 2
    /\ result = None

\* round(n / d) as Python rounds: to the nearest integer, a tie to the even one.
Round(n, d) ==
    LET q == n \div d
        r == n % d
    IN  IF 2 * r < d THEN q
        ELSE IF 2 * r > d THEN q + 1
        ELSE IF q % 2 = 0 THEN q ELSE q + 1

\* C7 as stated: every kept frame has height round(source height * resize) and
\* width round(source width * resize).
C7_TargetIsRounded ==
    Called => \A j \in 1..Len(frames) :
        /\ frames[j].height = Round(v_cap.height * resize.num, resize.den)
        /\ frames[j].width = Round(v_cap.width * resize.num, resize.den)

\* C7 amended: every kept frame has height int(source height * resize) and
\* width int(source width * resize), the product truncated to the integer
\* below it; all frames of one video have the same dimensions.
C7_TargetIsTruncated ==
    Called => \A j \in 1..Len(frames) :
        /\ frames[j].height = (v_cap.height * resize.num) \div resize.den
        /\ frames[j].width = (v_cap.width * resize.num) \div resize.den
        /\ frames[j].height = frames[1].height
        /\ frames[j].width = frames[1].width

\* C7 witness: two frames were kept and neither product is an integer.
C7_Witness ==
    /\ Called
    /\ Len(frames) >= 2
    /\ (v_cap.height * resize.num) % resize.den # 0
    /\ (v_cap.width * resize.num) % resize.den # 0
    /\ frames[1].height # frames[1].width

----------------------------------------------------------------------------
(* Claims about collate_fn (SpecBatch) *)

Collated == batch.raised # "unset"

\* The positions of the samples (the items that are not None) in data.
SamplePositions == { i \in 1..Len(data) : data[i] # None }

\* The position in data of its k-th sample.
KthSample(k) ==
    CHOOSE i \in SamplePositions : Cardinality({ j \in SamplePositions : j <= i }) = k

\* C2: collate_fn on a list made only of None, the empty list included, does
\* not raise and yields a batch whose three columns are empty.
C2_AllNoneGivesEmptyColumns ==
    (Collated /\ SamplePositions = {}) =>
        /\ batch.raised = "none"
        /\ batch.video_path = <<>>
        /\ batch.frame = <<>>
        /\ batch.label = <<>>

InsertAt(s, i, x) == SubSeq(s, 1, i - 1) \o <<x>> \o SubSeq(s, i, Len(s))

RemoveAt(s, i) == SubSeq(s, 1, i - 1) \o SubSeq(s, i + 1, Len(s))

\* C6: on a list with at least one sample the three columns have the length of
\* the number of samples, column c holds the c-th component of the samples in
\* their input order, and a None inserted at or removed from any position of
\* the list gives the same three columns.
C6_Columns ==
    (Collated /\ SamplePositions # {}) =>
        /\ batch.raised = "none"
        /\ Len(batch.video_path) = Cardinality(SamplePositions)
        /\ Len(batch.frame) = Cardinality(SamplePositions)
        /\ Len(batch.label) = Cardinality(SamplePositions)
        /\ \A k \in 1..Cardinality(SamplePositions) :
              /\ batch.video_path[k] = data[KthSample(k)][1]
              /\ batch.frame[k] = data[KthSample(k)][2]
              /\ batch.label[k] = data[KthSample(k)][3]
        /\ \A i \in 1..(Len(data) + 1) : CustomBatch(InsertAt(data, i, None)) = batch
        /\ \A i \in 1..Len(data) : data[i] = None => CustomBatch(RemoveAt(data, i)) = batch

\* C6 witness: a None between two different samples.
C6_Witness ==
    /\ Collated
    /\ Len(data) = 3
    /\ data[1] # None
    /\ data[2] = None
    /\ data[3] # None
    /\ data[1] # data[3]
    /\ Len(batch.label) = 2

----------------------------------------------------------------------------
(* Claims about the calls made after construction (SpecUse) *)

IsPrefix(s, t) == Len(s) <= Len(t) /\ SubSeq(t, 1, Len(s)) = s

\* The keys of the metadata file that construction left in self.metadata, in
\* the order of the file.
LeftInFileOrder ==
    LET kept == SelectSeq(metadata_file, LAMBDA e : e \in { metadata[i] : i \in 1..Len(metadata) })
    IN  [i \in 1..Len(kept) |-> kept[i].key]

C10_Step ==
    pc = "ready" =>
        /\ metadata' = metadata
        /\ path_to_all_videos' = path_to_all_videos
        /\ path_to_all_videos = LeftInFileOrder
        /\ Len(metadata) = Len(path_to_all_videos)
        /\ length' # -1 => length' = Len(path_to_all_videos)
        /\ length # -1 => length' = length
        /\ IsPrefix(error_paths, error_paths')
        /\ result' # None => error_paths' = error_paths

\* C10: once the dataset is constructed, no __getitem__ or __len__ call changes
\* metadata or path_to_all_videos; path_to_all_videos is the keys that were not
\* pruned, in the order of the metadata file; __len__ keeps returning the same
\* number; error_paths only grows at its end, and not at all in a call that
\* returns a sample.
C10_OnlyInitPrunes == [][C10_Step]_vars

\* C10 witness: something was pruned, the keys left are not in sorted order, a
\* call has failed, a later call has returned a sample, and __len__ was called.
C10_Witness ==
    /\ pc = "ready"
    /\ Len(metadata) < Len(metadata_file)
    /\ path_to_all_videos # MetadataKeys(metadata)
    /\ error_paths # <<>>
    /\ result # None
    /\ errors_before = error_paths
    /\ length = 3

----------------------------------------------------------------------------
(* Claims about the iteration in batches (SpecLoader) *)

RECURSIVE SamplesIn(_)
SamplesIn(bs) == IF bs = <<>> THEN 0 ELSE Len(Head(bs).video_path) + SamplesIn(Tail(bs))

\* C8: whatever videos fail with NoVideo or NoFrames and whatever the batch
\* size, the iteration is never aborted, and when it is done it has produced
\* one batch per group, holding between them exactly the items that did not
\* fail.
C8_FailuresOnlyShrinkBatches ==
    /\ it # "aborted"
    /\ it = "done" =>
          /\ Len(batches) = (length + batch_size - 1) \div batch_size
          /\ SamplesIn(batches) = length - Len(error_paths)

====
